---- MODULE Spec2Model ----
(***************************************************************************)
(* Model of app.py (Data Sweeper): the three cleaning transforms           *)
(* clean_column_names, remove_duplicates and handle_missing_values, and    *)
(* the script body that reads an uploaded file, applies the transforms,    *)
(* draws a chart and offers the downloads inside one try/except.           *)
(*                                                                         *)
(* A DataFrame is a record                                                 *)
(*   [columns : Seq(name), dtypes : Seq({"number","object"}), rows : Seq]  *)
(* A name is a sequence of one-character strings.  A cell is a record      *)
(*   [k : {"num","str","na"}, n, d]   (a number n/d, a text id n, or NaN). *)
(* Numbers are exact rationals in lowest terms; float rounding of pandas   *)
(* is not modelled.  Column labels of the tables enumerated here stay      *)
(* pairwise distinct (read_csv / read_excel de-duplicate labels).          *)
(***************************************************************************)
EXTENDS Integers, Sequences, FiniteSets, TLC

VARIABLES
    uploaded,        \* the DataFrame the uploaded file decodes to
    df,              \* the script's df variable
    pc,              \* position of the script run
    clean_cols,      \* checkbox "Clean column names"
    remove_dups,     \* checkbox "Remove duplicate rows"
    missing_method,  \* selectbox "Handle missing values"
    order,           \* checked checkboxes, in the order the user checked them
    log,             \* what this run rendered / executed, in order
    removed,         \* count shown by st.info in remove_duplicates (-1: none)
    fault,           \* description of the exception raised in this run
    errors           \* messages shown by st.error in this run

vars == <<uploaded, df, pc, clean_cols, remove_dups, missing_method, order,
          log, removed, fault, errors>>

----------------------------------------------------------------------------
(* Bounds *)

MaxNameLen == 4
MaxRows == 4
MaxVal == 3
PipeRows == 2
PipeVal == 2

----------------------------------------------------------------------------
(* Characters and strings *)

UpperCase ==
    <<"A","B","C","D","E","F","G","H","I","J","K","L","M",
      "N","O","P","Q","R","S","T","U","V","W","X","Y","Z">>

LowerCase ==
    <<"a","b","c","d","e","f","g","h","i","j","k","l","m",
      "n","o","p","q","r","s","t","u","v","w","x","y","z">>

Digits == {"0","1","2","3","4","5","6","7","8","9"}

Range(s) == {s[i] : i \in DOMAIN s}

\* str.isspace characters that occur in the model
IsSpace(c) == c \in {" ", "\t", "\n"}

\* regex \w : letters, digits and the underscore
IsWord(c) == c \in Range(UpperCase) \cup Range(LowerCase) \cup Digits \cup {"_"}

\* str.lower on one character
LowerChar(c) ==
    IF \E i \in DOMAIN UpperCase : UpperCase[i] = c
    THEN LowerCase[CHOOSE i \in DOMAIN UpperCase : UpperCase[i] = c]
    ELSE c

RECURSIVE lstrip(_)
lstrip(s) ==
    IF s = <<>> THEN <<>>
    ELSE IF IsSpace(Head(s)) THEN lstrip(Tail(s))
    ELSE s

RECURSIVE rstrip(_)
rstrip(s) ==
    IF s = <<>> THEN <<>>
    ELSE IF IsSpace(s[Len(s)]) THEN rstrip(SubSeq(s, 1, Len(s) - 1))
    ELSE s

\* Index.str.strip()
str_strip(s) == rstrip(lstrip(s))

\* Index.str.lower()
str_lower(s) == [i \in DOMAIN s |-> LowerChar(s[i])]

ReplaceSpaceChar(c) == IF c = " " THEN "_" ELSE c

\* A variant that turns every whitespace character into an underscore.
str_replace_any_space(s) == [i \in DOMAIN s |-> IF IsSpace(s[i]) THEN "_" ELSE s[i]]

\* Index.str.replace(' ', '_') : every space character, one by one
str_replace_space(s) == [i \in DOMAIN s |-> ReplaceSpaceChar(s[i])]

KeepChar(c) == IsWord(c) \/ IsSpace(c)

\* Index.str.replace('[^\w\s]', '', regex=True)
str_remove_special(s) == SelectSeq(s, KeepChar)

\* The two assignments of clean_column_names, on one column label
CleanName(s) == str_remove_special(str_replace_space(str_lower(str_strip(s))))

clean_column_names(t) ==
    [t EXCEPT !.columns = [j \in DOMAIN t.columns |-> CleanName(t.columns[j])]]

----------------------------------------------------------------------------
(* Cells, rational numbers, tables *)

NaN == [k |-> "na", n |-> 0, d |-> 1]

Txt(i) == [k |-> "str", n |-> i, d |-> 1]

Abs(x) == IF x < 0 THEN -x ELSE x

RECURSIVE GCD(_, _)
GCD(a, b) == IF b = 0 THEN a ELSE GCD(b, a % b)

\* the number n/d (d > 0) in lowest terms
Rat(n, d) ==
    LET g == GCD(Abs(n), d)
    IN  [k |-> "num", n |-> n \div g, d |-> d \div g]

Num(n) == Rat(n, 1)

RatAdd(a, b) == Rat(a.n * b.d + b.n * a.d, a.d * b.d)

RatDivInt(a, m) == Rat(a.n, a.d * m)

RatLeq(a, b) == a.n * b.d <= b.n * a.d

\* Series.isnull on one cell
isnull(c) == c.k = "na"

NRows(t) == Len(t.rows)

NCols(t) == Len(t.columns)

\* DataFrame.shape
shape(t) == <<NRows(t), NCols(t)>>

\* df[col] as a sequence of cells, col given by position
Col(t, j) == [i \in DOMAIN t.rows |-> t.rows[i][j]]

NotNull(c) == ~isnull(c)

\* the non-missing values of a column (mean and median skip NaN)
dropna_cells(cells) == SelectSeq(cells, NotNull)

\* df.isnull().values.any()
HasMissing(t) == \E i \in DOMAIN t.rows : \E j \in DOMAIN t.rows[i] : isnull(t.rows[i][j])

\* dtype the readers infer for a column: float64/int64 when every cell is a
\* number or NaN, object otherwise (and for a column of no rows)
InferDtype(cells) ==
    IF cells # <<>> /\ \A i \in DOMAIN cells : cells[i].k \in {"num", "na"}
    THEN "number" ELSE "object"

\* the DataFrame pd.read_csv / pd.read_excel build from a header and rows
MakeTable(header, rows) ==
    LET t0 == [columns |-> header, dtypes |-> <<>>, rows |-> rows]
    IN  [t0 EXCEPT !.dtypes = [j \in DOMAIN header |-> InferDtype(Col(t0, j))]]

\* df.select_dtypes(include=[np.number]).columns, as column positions
NumericCols(t) == {j \in DOMAIN t.columns : t.dtypes[j] = "number"}

----------------------------------------------------------------------------
(* remove_duplicates *)

\* A variant of the scan that keeps the last occurrence of each row.
RECURSIVE drop_dups_keep_last(_, _)
drop_dups_keep_last(rows, kept) ==
    IF rows = <<>> THEN kept
    ELSE IF Head(rows) \in Range(Tail(rows)) THEN drop_dups_keep_last(Tail(rows), kept)
    ELSE drop_dups_keep_last(Tail(rows), Append(kept, Head(rows)))

\* DataFrame.drop_duplicates(): scan the rows, keep a row unless an equal row
\* (NaN equal to NaN) was kept before
RECURSIVE drop_dups(_, _)
drop_dups(rows, kept) ==
    IF rows = <<>> THEN kept
    ELSE IF Head(rows) \in Range(kept) THEN drop_dups(Tail(rows), kept)
    ELSE drop_dups(Tail(rows), Append(kept, Head(rows)))

drop_duplicates(t) == [t EXCEPT !.rows = drop_dups(t.rows, <<>>)]

\* returns the new df and the number st.info reports
remove_duplicates(t) ==
    LET original_shape == NRows(t)
        d == drop_duplicates(t)
    IN  [df |-> d, info |-> original_shape - NRows(d)]

----------------------------------------------------------------------------
(* handle_missing_values *)

Methods == {"Remove rows", "Fill with mean", "Fill with median", "Fill with zero"}

RowComplete(r) == \A j \in DOMAIN r : ~isnull(r[j])

\* A variant of dropna that drops the columns holding a missing cell (axis=1).
dropna_columns(t) ==
    LET keep == {j \in DOMAIN t.columns : \A i \in DOMAIN t.rows : ~isnull(t.rows[i][j])}
        pick(r) == [k \in 1..Cardinality(keep) |->
                       r[CHOOSE j \in keep : Cardinality({x \in keep : x <= j}) = k]]
    IN  [columns |-> pick(t.columns),
         dtypes |-> pick(t.dtypes),
         rows |-> [i \in DOMAIN t.rows |-> pick(t.rows[i])]]

\* DataFrame.dropna()
dropna(t) == [t EXCEPT !.rows = SelectSeq(t.rows, RowComplete)]

RECURSIVE RatSum(_)
RatSum(cells) == IF cells = <<>> THEN Num(0) ELSE RatAdd(Head(cells), RatSum(Tail(cells)))

\* A variant of the mean that divides by the number of rows, NaN rows included.
mean_over_all_rows(cells) ==
    LET v == dropna_cells(cells)
    IN  IF v = <<>> THEN NaN ELSE RatDivInt(RatSum(v), Len(cells))

\* Series.mean(): mean of the non-missing values, NaN when there are none
mean(cells) ==
    LET v == dropna_cells(cells)
    IN  IF v = <<>> THEN NaN ELSE RatDivInt(RatSum(v), Len(v))

\* Series.median(): middle of the sorted non-missing values (mean of the two
\* middle values for an even count), NaN when there are none
median(cells) ==
    LET v == SortSeq(dropna_cells(cells), RatLeq)
        m == Len(v)
    IN  IF m = 0 THEN NaN
        ELSE IF m % 2 = 1 THEN v[(m + 1) \div 2]
        ELSE RatDivInt(RatAdd(v[m \div 2], v[m \div 2 + 1]), 2)

\* for col in numeric columns: df[col] = df[col].fillna(df[col].mean())
fill_mean(t) ==
    [t EXCEPT !.rows =
        [i \in DOMAIN t.rows |->
            [j \in DOMAIN t.columns |->
                IF j \in NumericCols(t) /\ isnull(t.rows[i][j])
                THEN mean(Col(t, j)) ELSE t.rows[i][j]]]]

\* for col in numeric columns: df[col] = df[col].fillna(df[col].median())
fill_median(t) ==
    [t EXCEPT !.rows =
        [i \in DOMAIN t.rows |->
            [j \in DOMAIN t.columns |->
                IF j \in NumericCols(t) /\ isnull(t.rows[i][j])
                THEN median(Col(t, j)) ELSE t.rows[i][j]]]]

\* A variant of fillna(0) that fills the numeric columns only.
fillna_zero_numeric(t) ==
    [t EXCEPT !.rows =
        [i \in DOMAIN t.rows |->
            [j \in DOMAIN t.columns |->
                IF j \in NumericCols(t) /\ isnull(t.rows[i][j]) THEN Num(0) ELSE t.rows[i][j]]]]

\* DataFrame.fillna(0)
fillna_zero(t) ==
    [t EXCEPT !.rows =
        [i \in DOMAIN t.rows |->
            [j \in DOMAIN t.columns |->
                IF isnull(t.rows[i][j]) THEN Num(0) ELSE t.rows[i][j]]]]

handle_missing_values(t, method) ==
    IF method = "Remove rows" THEN dropna(t)
    ELSE IF method = "Fill with mean" THEN fill_mean(t)
    ELSE IF method = "Fill with median" THEN fill_median(t)
    ELSE IF method = "Fill with zero" THEN fillna_zero(t)
    ELSE t

----------------------------------------------------------------------------
(* State shared by the specifications *)

EmptyTable == MakeTable(<<>>, <<>>)

BoundedSeq(S, n) == UNION {[1..k -> S] : k \in 0..n}

\* widget defaults: unchecked checkboxes, first option of the selectbox
WidgetsDefault ==
    /\ clean_cols = FALSE
    /\ remove_dups = FALSE
    /\ missing_method = "Remove rows"
    /\ order = <<>>

RunDefault ==
    /\ log = <<>>
    /\ removed = -1
    /\ fault = "none"
    /\ errors = <<>>

----------------------------------------------------------------------------
(* SpecNames: clean_column_names applied once and twice to a one-column    *)
(* table whose label ranges over all strings up to MaxNameLen              *)

NameChars == {"A", "a", "7", " ", "\t", "!", "_"}

Names == BoundedSeq(NameChars, MaxNameLen)

NamesInit ==
    /\ uploaded \in {MakeTable(<<s>>, <<>>) : s \in Names}
    /\ df = uploaded
    /\ pc = "n0"
    /\ WidgetsDefault
    /\ RunDefault

NamesClean ==
    /\ pc \in {"n0", "n1"}
    /\ df' = clean_column_names(df)
    /\ pc' = IF pc = "n0" THEN "n1" ELSE "n2"
    /\ UNCHANGED <<uploaded, clean_cols, remove_dups, missing_method, order,
                   log, removed, fault, errors>>

NamesNext == NamesClean

SpecNames == NamesInit /\ [][NamesNext]_vars

----------------------------------------------------------------------------
(* SpecFn: remove_duplicates and handle_missing_values applied to every    *)
(* two-column table of at most MaxRows rows                                *)

FnHeader == << <<"q","t","y">>, <<"t","a","g">> >>

FnRowSet ==
    {<<a, b>> : a \in {Num(v) : v \in 1..MaxVal} \cup {NaN}, b \in {Txt(1), NaN}}

FnTables == {MakeTable(FnHeader, rows) : rows \in BoundedSeq(FnRowSet, MaxRows)}

FnInit ==
    /\ uploaded \in FnTables
    /\ df = uploaded
    /\ pc = "fn"
    /\ WidgetsDefault
    /\ RunDefault

FnDedupe ==
    /\ pc \in {"fn", "fn_dedup"}
    /\ LET r == remove_duplicates(df)
       IN  /\ df' = r.df
           /\ removed' = r.info
    /\ pc' = IF pc = "fn" THEN "fn_dedup" ELSE "fn_dedup2"
    /\ UNCHANGED <<uploaded, clean_cols, remove_dups, missing_method, order,
                   log, fault, errors>>

FnMissing(m) ==
    /\ pc = "fn"
    /\ df' = handle_missing_values(df, m)
    /\ missing_method' = m
    /\ pc' = "fn_missing"
    /\ UNCHANGED <<uploaded, clean_cols, remove_dups, order, log, removed,
                   fault, errors>>

FnNext ==
    \/ FnDedupe
    \/ \E m \in Methods : FnMissing(m)

SpecFn == FnInit /\ [][FnNext]_vars

----------------------------------------------------------------------------
(* Spec: the script body, lines 126-231.  Streamlit runs the script from   *)
(* the top after every widget change; a run is the sequence of steps       *)
(* read -> clean -> dups -> missing -> chart -> csv -> excel -> done.      *)

\* " Total Sales! " and "Name"
PipeHeader ==
    << <<" ","T","o","t","a","l"," ","S","a","l","e","s","!"," ">>,
       <<"N","a","m","e">> >>

PipeRowSet ==
    {<<a, b>> : a \in {Num(v) : v \in 1..PipeVal} \cup {NaN}, b \in {Txt(1), NaN}}

\* the tables an uploaded file can decode to
PipeTables == {MakeTable(PipeHeader, rows) : rows \in BoundedSeq(PipeRowSet, PipeRows)}

\* descriptions str(e) of the exceptions a step can raise
Faults == {"ParserError", "ValueError"}

\* st.error(f"An error occurred: {str(e)}")
ErrorMessage(e) == [prefix |-> "An error occurred: ", detail |-> e]

Running == {"read", "clean", "dups", "missing", "chart", "csv", "excel"}

Finished == {"done", "failed"}

\* A variant of the script with the duplicate-removal block placed first.
StepAfterDupsFirst(p) ==
    CASE p = "read" -> "dups"
      [] p = "dups" -> "clean"
      [] p = "clean" -> "missing"
      [] p = "missing" -> "chart"
      [] p = "chart" -> "csv"
      [] p = "csv" -> "excel"
      [] p = "excel" -> "done"

\* textual order of the blocks of the script
StepAfter(p) ==
    CASE p = "read" -> "clean"
      [] p = "clean" -> "dups"
      [] p = "dups" -> "missing"
      [] p = "missing" -> "chart"
      [] p = "chart" -> "csv"
      [] p = "csv" -> "excel"
      [] p = "excel" -> "done"

Rendered(w) == w \in Range(log)

\* a widget change reruns the script from the top
Rerun ==
    /\ pc' = "read"
    /\ df' = EmptyTable
    /\ log' = <<>>
    /\ removed' = -1
    /\ fault' = "none"
    /\ errors' = <<>>

Init ==
    /\ uploaded = EmptyTable
    /\ df = EmptyTable
    /\ pc = "idle"
    /\ WidgetsDefault
    /\ RunDefault

\* st.file_uploader: the user uploads a file (line 124)
Upload(t) ==
    /\ pc = "idle"
    /\ uploaded' = t
    /\ Rerun
    /\ UNCHANGED <<clean_cols, remove_dups, missing_method, order>>

\* the user removes the file: the next run skips the block of line 126
\* (replacing a file is RemoveFile followed by Upload; widget values are kept)
RemoveFile ==
    /\ pc \in Finished
    /\ uploaded' = EmptyTable
    /\ pc' = "idle"
    /\ df' = EmptyTable
    /\ log' = <<>>
    /\ removed' = -1
    /\ fault' = "none"
    /\ errors' = <<>>
    /\ UNCHANGED <<clean_cols, remove_dups, missing_method, order>>

Without(s, w) == SelectSeq(s, LAMBDA x : x # w)

\* the user clicks the checkbox "Clean column names" (line 145)
ToggleCleanCols ==
    /\ pc \in Finished
    /\ Rendered("cb_clean")
    /\ clean_cols' = ~clean_cols
    /\ order' = IF clean_cols THEN Without(order, "clean_cols")
                ELSE Append(order, "clean_cols")
    /\ Rerun
    /\ UNCHANGED <<uploaded, remove_dups, missing_method>>

\* the user clicks the checkbox "Remove duplicate rows" (line 150)
ToggleRemoveDups ==
    /\ pc \in Finished
    /\ Rendered("cb_dups")
    /\ remove_dups' = ~remove_dups
    /\ order' = IF remove_dups THEN Without(order, "remove_dups")
                ELSE Append(order, "remove_dups")
    /\ Rerun
    /\ UNCHANGED <<uploaded, clean_cols, missing_method>>

\* the user picks an option of the selectbox "Handle missing values" (line 156)
SelectMethod(m) ==
    /\ pc \in Finished
    /\ Rendered("sb_missing")
    /\ m # missing_method
    /\ missing_method' = m
    /\ Rerun
    /\ UNCHANGED <<uploaded, clean_cols, remove_dups, order>>

\* lines 129-136: read the file, show the preview
ReadFile ==
    /\ pc = "read"
    /\ df' = uploaded
    /\ log' = Append(log, "preview")
    /\ pc' = StepAfter(pc)
    /\ UNCHANGED <<uploaded, clean_cols, remove_dups, missing_method, order,
                   removed, fault, errors>>

\* lines 144-147
StepCleanCols ==
    /\ pc = "clean"
    /\ IF clean_cols
       THEN /\ df' = clean_column_names(df)
            /\ log' = log \o <<"cb_clean", "normalize">>
       ELSE /\ df' = df
            /\ log' = Append(log, "cb_clean")
    /\ pc' = StepAfter(pc)
    /\ UNCHANGED <<uploaded, clean_cols, remove_dups, missing_method, order,
                   removed, fault, errors>>

\* lines 149-152
StepRemoveDups ==
    /\ pc = "dups"
    /\ IF remove_dups
       THEN LET r == remove_duplicates(df)
            IN  /\ df' = r.df
                /\ removed' = r.info
                /\ log' = log \o <<"cb_dups", "dedupe">>
       ELSE /\ df' = df
            /\ removed' = removed
            /\ log' = Append(log, "cb_dups")
    /\ pc' = StepAfter(pc)
    /\ UNCHANGED <<uploaded, clean_cols, remove_dups, missing_method, order,
                   fault, errors>>

\* A variant of the block with a way to leave the table as it is.
StepMissingSkipped ==
    /\ pc = "missing"
    /\ df' = df
    /\ log' = IF HasMissing(df) THEN Append(log, "sb_missing") ELSE log
    /\ pc' = StepAfter(pc)
    /\ UNCHANGED <<uploaded, clean_cols, remove_dups, missing_method, order,
                   removed, fault, errors>>

\* lines 154-160
StepMissing ==
    /\ pc = "missing"
    /\ IF HasMissing(df)
       THEN /\ df' = handle_missing_values(df, missing_method)
            /\ log' = log \o <<"sb_missing", "missing">>
       ELSE /\ df' = df
            /\ log' = log
    /\ pc' = StepAfter(pc)
    /\ UNCHANGED <<uploaded, clean_cols, remove_dups, missing_method, order,
                   removed, fault, errors>>

\* lines 168-203: the chart is drawn when there is a numeric column
StepChart ==
    /\ pc = "chart"
    /\ log' = IF NumericCols(df) # {} THEN Append(log, "chart") ELSE log
    /\ pc' = StepAfter(pc)
    /\ UNCHANGED <<uploaded, df, clean_cols, remove_dups, missing_method, order,
                   removed, fault, errors>>

\* lines 210-217
StepCsv ==
    /\ pc = "csv"
    /\ log' = Append(log, "csv")
    /\ pc' = StepAfter(pc)
    /\ UNCHANGED <<uploaded, df, clean_cols, remove_dups, missing_method, order,
                   removed, fault, errors>>

\* lines 219-228
StepExcel ==
    /\ pc = "excel"
    /\ log' = Append(log, "xlsx")
    /\ pc' = StepAfter(pc)
    /\ UNCHANGED <<uploaded, df, clean_cols, remove_dups, missing_method, order,
                   removed, fault, errors>>

\* A variant of the handler that shows the message and lets the run go on.
RaiseAndContinue(e) ==
    /\ pc \in Running
    /\ fault' = e
    /\ errors' = Append(errors, ErrorMessage(e))
    /\ pc' = StepAfter(pc)
    /\ UNCHANGED <<uploaded, df, clean_cols, remove_dups, missing_method, order,
                   log, removed>>

\* a step raises; "except Exception as e" shows the message (lines 230-231)
Raise(e) ==
    /\ pc \in Running
    /\ fault' = e
    /\ errors' = Append(errors, ErrorMessage(e))
    /\ pc' = "failed"
    /\ UNCHANGED <<uploaded, df, clean_cols, remove_dups, missing_method, order,
                   log, removed>>

Next ==
    \/ \E t \in PipeTables : Upload(t)
    \/ RemoveFile
    \/ ToggleCleanCols
    \/ ToggleRemoveDups
    \/ \E m \in Methods : SelectMethod(m)
    \/ ReadFile
    \/ StepCleanCols
    \/ StepRemoveDups
    \/ StepMissing
    \/ StepChart
    \/ StepCsv
    \/ StepExcel
    \/ \E e \in Faults : Raise(e)

Spec == Init /\ [][Next]_vars

----------------------------------------------------------------------------
(* Properties of clean_column_names (SpecNames) *)

NameIn == uploaded.columns[1]

NameOut == df.columns[1]

\* C3: column-name normalization is idempotent: applying clean_column_names
\* a second time leaves every column name as the first application made it.
C3_Idempotent ==
    [][(pc = "n1" /\ pc' = "n2") => df'.columns = df.columns]_vars

PatternChars == Range(LowerCase) \cup Digits \cup {"_"}

\* C4: every column name produced by clean_column_names matches [a-z0-9_]*.
C4_OutputPattern ==
    pc \in {"n1", "n2"} =>
        \A j \in DOMAIN df.columns : Range(df.columns[j]) \subseteq PatternChars

\* whitespace runs collapsed to one underscore each
RECURSIVE CollapseRuns(_)
CollapseRuns(s) ==
    IF s = <<>> THEN <<>>
    ELSE IF IsSpace(Head(s))
         THEN <<"_">> \o CollapseRuns(lstrip(s))
         ELSE <<Head(s)>> \o CollapseRuns(Tail(s))

\* the reference transform of the specification: trim, lowercase, whitespace
\* runs to one underscore, drop what is not alphanumeric, underscore or space
ReferenceTransform(s) ==
    SelectSeq(CollapseRuns(str_lower(str_strip(s))), KeepChar)

\* C5 (as stated): clean_column_names computes the reference transform, so a
\* run of internal whitespace yields a single underscore.
C5_ReferenceTransform ==
    pc = "n1" => NameOut = ReferenceTransform(NameIn)

NonSpaceIdx(s) == {i \in DOMAIN s : ~IsSpace(s[i])}

Min(S) == CHOOSE x \in S : \A y \in S : x <= y

Max(S) == CHOOSE x \in S : \A y \in S : x >= y

\* the label between its first and its last non-whitespace character
Core(s) ==
    IF NonSpaceIdx(s) = {} THEN <<>>
    ELSE SubSeq(s, Min(NonSpaceIdx(s)), Max(NonSpaceIdx(s)))

PerChar(c) == IF c = " " THEN "_" ELSE LowerChar(c)

\* C5 (amended): clean_column_names trims leading and trailing whitespace,
\* lowercases, replaces each space character (U+0020) by one underscore, one
\* for one, leaves other whitespace characters in place, and removes every
\* character that is neither a word character nor whitespace; so the result
\* has one underscore for every space and every underscore between the first
\* and the last non-whitespace character (n consecutive internal spaces yield
\* n underscores).
C5_PerSpaceTransform ==
    pc = "n1" =>
        /\ NameOut = SelectSeq([i \in DOMAIN Core(NameIn) |-> PerChar(Core(NameIn)[i])], KeepChar)
        /\ Cardinality({i \in DOMAIN NameOut : NameOut[i] = "_"})
              = Cardinality({i \in DOMAIN Core(NameIn) : Core(NameIn)[i] \in {" ", "_"}})

\* a label with two consecutive internal spaces came out with two underscores
C5_Witness ==
    /\ pc = "n1"
    /\ NameIn = <<"a", " ", " ", "A">>
    /\ NameOut = <<"a", "_", "_", "a">>

----------------------------------------------------------------------------
(* Properties of remove_duplicates and handle_missing_values (SpecFn) *)

\* positions of the rows that equal no earlier row
FirstOccurrences(rows) ==
    {i \in DOMAIN rows : \A j \in 1..(i - 1) : rows[j] # rows[i]}

\* the k-th smallest element of a set of positions
NthOf(S, k) == CHOOSE i \in S : Cardinality({j \in S : j <= i}) = k

\* the rows at the positions S, in their original order
RowsAt(rows, S) == [k \in 1..Cardinality(S) |-> rows[NthOf(S, k)]]

\* C6: remove_duplicates returns exactly the rows that equal no earlier row,
\* in their original order, reports the number of rows dropped, and a second
\* application changes nothing (and reports 0).
C6_Dedupe ==
    /\ pc \in {"fn_dedup", "fn_dedup2"} =>
          /\ df.rows = RowsAt(uploaded.rows, FirstOccurrences(uploaded.rows))
          /\ df.columns = uploaded.columns
    /\ pc = "fn_dedup" => removed = NRows(uploaded) - NRows(df)
    /\ pc = "fn_dedup2" => removed = 0

\* duplicates were dropped around a surviving row: [x, y, x, ...]
C6_Witness ==
    /\ pc = "fn_dedup"
    /\ NRows(uploaded) >= 3
    /\ uploaded.rows[1] = uploaded.rows[3]
    /\ uploaded.rows[1] # uploaded.rows[2]
    /\ removed >= 1
    /\ NRows(df) >= 2

Present(t, j) == {i \in DOMAIN t.rows : ~isnull(t.rows[i][j])}

RECURSIVE SumN(_, _, _)
SumN(t, j, S) ==
    IF S = {} THEN 0
    ELSE LET i == CHOOSE x \in S : TRUE
         IN  t.rows[i][j].n + SumN(t, j, S \ {i})

\* m is the arithmetic mean of the (integer) non-missing cells of column j
IsMeanOf(m, t, j) ==
    /\ m.k = "num"
    /\ m.n * Cardinality(Present(t, j)) = m.d * SumN(t, j, Present(t, j))

\* the k-th smallest non-missing value of column j, by counting
KthValue(t, j, k) ==
    LET P == Present(t, j)
        v == CHOOSE a \in {t.rows[i][j].n : i \in P} :
                /\ Cardinality({i \in P : t.rows[i][j].n < a}) < k
                /\ k <= Cardinality({i \in P : t.rows[i][j].n <= a})
    IN  v

\* m is the median of the (integer) non-missing cells of column j
IsMedianOf(m, t, j) ==
    LET c == Cardinality(Present(t, j))
    IN  /\ m.k = "num"
        /\ IF c % 2 = 1
           THEN m.n = m.d * KthValue(t, j, (c + 1) \div 2)
           ELSE 2 * m.n = m.d * (KthValue(t, j, c \div 2) + KthValue(t, j, c \div 2 + 1))

\* m is what the column's mean / median is: the statistic of the non-missing
\* cells, NaN for a column without any
IsStatOf(m, t, j) ==
    IF Present(t, j) = {} THEN m = NaN
    ELSE IF missing_method = "Fill with mean" THEN IsMeanOf(m, t, j)
    ELSE IsMedianOf(m, t, j)

\* C7: under Fill with mean / Fill with median every missing cell of every
\* numeric column becomes the mean / median of the column's non-missing values
\* (a numeric column without any value has none, and stays missing), and every
\* other cell (non-missing cells, cells of non-numeric columns, missing or
\* not) is left as it was.
C7_FillMeanMedian ==
    (pc = "fn_missing" /\ missing_method \in {"Fill with mean", "Fill with median"}) =>
        /\ shape(df) = shape(uploaded)
        /\ df.columns = uploaded.columns
        /\ \A i \in DOMAIN uploaded.rows : \A j \in DOMAIN uploaded.columns :
              IF uploaded.dtypes[j] = "number" /\ isnull(uploaded.rows[i][j])
              THEN IsStatOf(df.rows[i][j], uploaded, j)
              ELSE df.rows[i][j] = uploaded.rows[i][j]

\* a numeric column [.., NaN, ..] with two different values was filled while
\* a missing cell of the text column stayed missing
C7_Witness ==
    /\ pc = "fn_missing"
    /\ missing_method \in {"Fill with mean", "Fill with median"}
    /\ uploaded.dtypes = <<"number", "object">>
    /\ \E i \in DOMAIN uploaded.rows : isnull(uploaded.rows[i][1]) /\ ~isnull(df.rows[i][1])
    /\ \E i, k \in Present(uploaded, 1) : uploaded.rows[i][1] # uploaded.rows[k][1]
    /\ \E i \in DOMAIN df.rows : isnull(df.rows[i][2])

Complete(rows) == {i \in DOMAIN rows : \A j \in DOMAIN rows[i] : rows[i][j].k # "na"}

\* C8: the result of Remove rows or Fill with zero has no missing cell in any
\* column; Remove rows keeps exactly the rows without a missing cell, as they
\* were and in order; Fill with zero keeps the shape and every non-missing cell.
C8_NoMissingLeft ==
    /\ (pc = "fn_missing" /\ missing_method \in {"Remove rows", "Fill with zero"}) =>
          /\ ~HasMissing(df)
          /\ df.columns = uploaded.columns
    /\ (pc = "fn_missing" /\ missing_method = "Remove rows") =>
          df.rows = RowsAt(uploaded.rows, Complete(uploaded.rows))
    /\ (pc = "fn_missing" /\ missing_method = "Fill with zero") =>
          /\ shape(df) = shape(uploaded)
          /\ \A i \in DOMAIN uploaded.rows : \A j \in DOMAIN uploaded.columns :
                ~isnull(uploaded.rows[i][j]) => df.rows[i][j] = uploaded.rows[i][j]

\* Fill with zero filled a missing cell of a text (object) column
C8_Witness ==
    /\ pc = "fn_missing"
    /\ missing_method = "Fill with zero"
    /\ uploaded.dtypes[2] = "object"
    /\ \E i \in DOMAIN uploaded.rows : isnull(uploaded.rows[i][2]) /\ df.rows[i][2] = Num(0)

----------------------------------------------------------------------------
(* Properties of the script run (Spec) *)

Stages == {"normalize", "dedupe", "missing"}

StageRank(x) == CASE x = "normalize" -> 1 [] x = "dedupe" -> 2 [] x = "missing" -> 3

AfterStages == {"chart", "csv", "excel", "done"}

\* the uploaded table after the normalization and duplicate-removal the
\* checkboxes ask for
BeforeMissing ==
    LET a == IF clean_cols THEN clean_column_names(uploaded) ELSE uploaded
    IN  IF remove_dups THEN remove_duplicates(a).df ELSE a

\* C1: in every run the stages run in the order normalize, dedupe, missing
\* values, each checkbox stage exactly when its box is checked, and the
\* missing-value stage exactly when the table left by the first two stages
\* has a missing cell - whatever the order the boxes were checked in.
C1_FixedOrder ==
    /\ \A i, j \in DOMAIN log :
          (i < j /\ log[i] \in Stages /\ log[j] \in Stages) =>
              StageRank(log[i]) < StageRank(log[j])
    /\ pc \in AfterStages =>
          /\ ("normalize" \in Range(log)) <=> clean_cols
          /\ ("dedupe" \in Range(log)) <=> remove_dups
          /\ ("missing" \in Range(log)) <=> HasMissing(BeforeMissing)

\* the user checked "Remove duplicate rows" before "Clean column names" and
\* the run still normalized first, then removed duplicates, then filled
C1_Witness ==
    /\ pc = "done"
    /\ order = <<"remove_dups", "clean_cols">>
    /\ SelectSeq(log, LAMBDA x : x \in Stages) = <<"normalize", "dedupe", "missing">>
    /\ removed >= 1
    /\ df.columns[1] = <<"t","o","t","a","l","_","s","a","l","e","s">>

\* the result of a whole run under a selection of the controls
RunResult(t, cc, rd, m) ==
    LET a == IF cc THEN clean_column_names(t) ELSE t
        b == IF rd THEN remove_duplicates(a).df ELSE a
    IN  IF HasMissing(b) THEN handle_missing_values(b, m) ELSE b

\* C2 (as stated): every stage is optional: for every uploaded table some
\* selection of the controls leaves the table as uploaded, so a table with
\* missing cells can reach the chart and the downloads untouched.
C2_EveryStageOptional ==
    pc = "done" =>
        \E cc \in BOOLEAN, rd \in BOOLEAN, m \in Methods :
            RunResult(uploaded, cc, rd, m) = uploaded

\* a missing cell that Fill with mean / Fill with median cannot fill: it lies
\* in a non-numeric column or in a numeric column without any value
Unfillable(t, i, j) ==
    isnull(t.rows[i][j]) /\ (t.dtypes[j] # "number" \/ Present(t, j) = {})

\* C2 (amended): normalization and duplicate removal are optional (with the
\* box unchecked the stage is not applied and leaves names, respectively
\* rows, as they were); the missing-value stage has no opt-out: whenever the
\* table has a missing cell handle_missing_values is applied with the selected
\* method (Remove rows unless the user picks another), and a table with
\* missing cells reaches the chart and the downloads unchanged only under
\* Fill with mean / Fill with median when none of its missing cells lies in a
\* numeric column that has a value.
C2_MissingStageNotOptional ==
    pc \in AfterStages =>
        /\ ~clean_cols => ("normalize" \notin Range(log) /\ df.columns = uploaded.columns)
        /\ ~remove_dups => ("dedupe" \notin Range(log) /\ removed = -1)
        /\ (~remove_dups /\ ~HasMissing(uploaded)) => df.rows = uploaded.rows
        /\ HasMissing(uploaded) => "missing" \in Range(log)
        /\ (HasMissing(uploaded) /\ df = uploaded) =>
              /\ missing_method \in {"Fill with mean", "Fill with median"}
              /\ \A i \in DOMAIN uploaded.rows : \A j \in DOMAIN uploaded.columns :
                    isnull(uploaded.rows[i][j]) => Unfillable(uploaded, i, j)

\* both boxes unchecked, and the missing-value stage still changed the table
C2_Witness ==
    /\ pc = "done"
    /\ ~clean_cols
    /\ ~remove_dups
    /\ HasMissing(uploaded)
    /\ "missing" \in Range(log)
    /\ df # uploaded

\* C9: when a step raises, the run ends there: exactly one error message is
\* shown, it carries the description of the fault, and nothing more is
\* rendered or executed until the user's next interaction starts a new run.
C9_FaultAborts ==
    [][ /\ (fault' # "none") =>
              (pc' = "failed" /\ errors' = <<ErrorMessage(fault')>>)
        /\ (fault' = "none") => (errors' = <<>> /\ pc' # "failed")
        /\ (pc = "failed") =>
              (pc' \in {"read", "idle"} /\ log' = <<>> /\ errors' = <<>>)
      ]_vars

\* the chart step raised after all three stages ran: one message, no chart,
\* no download
C9_Witness ==
    /\ pc = "failed"
    /\ fault = "ValueError"
    /\ errors = <<ErrorMessage("ValueError")>>
    /\ "missing" \in Range(log)
    /\ Range(log) \cap {"chart", "csv", "xlsx"} = {}

RowWidthsOk(t) == \A i \in DOMAIN t.rows : Len(t.rows[i]) = NCols(t)

\* C10: from one step of a run to the next the row count never grows and the
\* column count never changes; normalization and the three fill policies keep
\* the row count; only duplicate removal and Remove rows lower it.
C10_Counts ==
    [][ (pc \in Running \ {"read"} /\ pc' \in Running \cup {"done"}) =>
          /\ NRows(df') <= NRows(df)
          /\ NCols(df') = NCols(df)
          /\ RowWidthsOk(df')
          /\ (pc = "clean") => NRows(df') = NRows(df)
          /\ (pc = "missing" /\ missing_method # "Remove rows") => NRows(df') = NRows(df)
          /\ (NRows(df') < NRows(df)) =>
                \/ (pc = "dups" /\ remove_dups)
                \/ (pc = "missing" /\ missing_method = "Remove rows")
      ]_vars

\* a run in which duplicate removal and then Remove rows each dropped a row
C10_Witness ==
    /\ pc = "done"
    /\ clean_cols
    /\ removed = 1
    /\ missing_method = "Remove rows"
    /\ NRows(df) < NRows(uploaded) - removed
    /\ NCols(df) = NCols(uploaded)

====
